---- MODULE Spec2Model ----
(***************************************************************************)
(* Multi-agent website cloning: the workflow orchestrator                  *)
(* (workflow/orchestrator.py), the agent factory                           *)
(* (workflow/agent_factory.py) and the generation service (service.py).    *)
(*                                                                         *)
(* Graph runner.  The orchestrator hands its handlers to a langgraph       *)
(* StateGraph over the TypedDict WorkflowState.  The runner keeps one      *)
(* value per top-level key.  A node handler receives a fresh mapping of    *)
(* those values; the mapping it RETURNS is written back key by key.  The   *)
(* router of a conditional edge also receives a fresh mapping, but it      *)
(* returns only the edge label, so an assignment it makes to a top-level   *)
(* key of its argument is not written back.  The values stored under       *)
(* "agents", "results" and "errors" are the very objects of initial_state, *)
(* so in-place mutation of them is seen by everybody, also after a handler *)
(* raised.  A handler that raises makes invoke() raise: nodes are added    *)
(* without a retry policy.                                                 *)
(***************************************************************************)
EXTENDS Integers, Sequences, FiniteSets, TLC

\* ------------------------------------------------------------------ bounds
MaxCfgRetries == 4      \* largest AgentConfig.max_retries that is configured
MaxFirstPass == 5       \* latest validation run that is the first to pass
MaxTasks == 1           \* clone_website calls
MaxCalls == 3           \* register_websocket and unregister_websocket calls
MaxSvcFirstPass == 1    \* first_pass of the runs started through the service
MaxSendErrors == 1      \* send_json calls that raise
PairTasks == 2          \* clone_website calls where tasks run side by side
PairCalls == 2          \* register and unregister calls next to two tasks
LookupCalls == 2        \* register and unregister calls next to the lookups

\* -------------------------------------------------------- program constants
RetryLimit == 3         \* the literal 3 of the handler and of the router
PassMark   == 90        \* "passed": quality_score >= 90
DefaultMaxRetries == 3  \* kwargs.get("max_retries", 3)

None == "None"
Observers == {"w1", "w2"}   \* the WebSocket objects
Keys == {<<kind, n>> : kind \in {"task", "dir"}, n \in 1..PairTasks}
Scores == {40, 90, 95}  \* quality scores a validation run may report

AgentTypes == {"scraper", "semantic_parser", "style_transfer",
               "layout_generator", "component_synthesizer", "validation"}

\* create_default_workflow_agents: the six agent types, in this order
DefaultTypes == <<"scraper", "semantic_parser", "style_transfer",
                  "layout_generator", "component_synthesizer", "validation">>

Prefix(s, n) == [i \in 1..n |-> s[i]]

\* the configured stage sequences that are explored
TypeSeqs ==
    {Prefix(DefaultTypes, n) : n \in 0..6}
    \cup {<<"scraper", "semantic_parser", "style_transfer",
            "layout_generator", "validation", "component_synthesizer">>,
          <<"scraper", "semantic_parser", "style_transfer",
            "layout_generator", "layout_generator", "validation">>}

\* AgentConfig(agent_type, max_retries)
AgentConfig(ty, ms, mo) ==
    [agent_type |-> ty,
     max_retries |-> IF ty = "component_synthesizer" THEN ms ELSE mo]

VARIABLES
    agent_configs,  \* service.agent_configs: sequence of AgentConfig
    agent_instances,\* service.agent_instances: <<>> for None, else <<agents>>
    orchestrator,   \* service.orchestrator: None or "created"
    active_tasks,   \* service.active_tasks: task number -> task record
    websocket_connections, \* service.websocket_connections: key -> list
    sends,          \* _notify_clients loops suspended in send_json
    delivered,      \* history: the messages send_json passed on, per observer
    failed_sends,   \* history: <<observer, event, run>> of send_json that raised
    at_start,       \* history: the observers of a task when its run began
    unregistered,   \* history: the <<key, observer>> pairs ever unregistered
    dropped,        \* history: the pairs whose latest call was unregister
    limits,         \* the numbers of calls and failures a behaviour may hold
    reply,          \* what the latest get_task_status or get_task_result returned
    creations,      \* history: how often initialize created agents and orchestrator
    emitted,        \* history: the status events each run emitted
    api_calls,      \* history: register and unregister calls made so far
    runner,         \* the task whose background run holds the event loop
    pc,             \* position of the run inside run_workflow
    node,           \* the graph node that executes next
    state,          \* the WorkflowState threaded through the graph
    final_state,    \* the WorkflowState returned by run_workflow, or None
    loop_tasks,     \* asyncio tasks created by create_task, oldest first
    response,       \* GenerationResponse of generate_website_from_url, or None
    first_pass,     \* the validation run that first reports passed (0: none)
    calls,          \* history: handler invocations per agent_id
    gate_log        \* history: "passed" of each completed validation_6 run

vars == <<agent_configs, agent_instances, orchestrator, creations, active_tasks,
          websocket_connections, sends, delivered, at_start, unregistered,
          emitted, api_calls, runner, pc, node, state, final_state,
          loop_tasks, response, first_pass, calls, gate_log, failed_sends,
          dropped, limits, reply>>

\* the variables of the service that a step of run_workflow leaves alone
service_vars == <<agent_configs, agent_instances, orchestrator, creations, active_tasks,
                  websocket_connections, sends, delivered, at_start,
                  unregistered, api_calls, runner, first_pass, failed_sends,
                  dropped, limits, reply>>

\* ------------------------------------------------------------ agent factory
\* agent_id = f"{config.agent_type}_{i+1}"
AgentId(ty, i) == <<ty, i>>

VALIDATION_6 == AgentId("validation", 6)
COMPONENT_SYNTHESIZER_5 == AgentId("component_synthesizer", 5)
SCRAPER_1 == AgentId("scraper", 1)
SEMANTIC_PARSER_2 == AgentId("semantic_parser", 2)
STYLE_TRANSFER_3 == AgentId("style_transfer", 3)
LAYOUT_GENERATOR_4 == AgentId("layout_generator", 4)

\* create_agent: the configured max_retries is passed as retry_limit, a
\* keyword BaseAgent.__init__ does not read; max_retries keeps its default
create_agent(config) ==
    [agent_type |-> config.agent_type,
     retry_limit |-> config.max_retries,
     max_retries |-> DefaultMaxRetries]

\* create_agents_from_config: agent_id -> agent, in configuration order
AgentIds(cfgs) == {AgentId(cfgs[i].agent_type, i) : i \in 1..Len(cfgs)}

create_agents_from_config(cfgs) ==
    [id \in AgentIds(cfgs) |-> create_agent(cfgs[id[2]])]

\* workflow_nodes: the agent ids in insertion order
workflow_nodes(agents) ==
    [i \in 1..Cardinality(DOMAIN agents) |->
        CHOOSE id \in DOMAIN agents : id[2] = i]

\* _build_workflow_graph: the conditional edge leaving validation_6
HasConditionalEdges(agents) ==
    VALIDATION_6 \in DOMAIN agents /\ COMPONENT_SYNTHESIZER_5 \in DOMAIN agents

\* ------------------------------------------------------------ workflow state
NoAgents == [id \in {} |-> None]

ORCHESTRATOR == <<"orchestrator", 0>>   \* "agent_id": "orchestrator"
NoAgentId == <<"None", 0>>              \* agent_id None of a workflow event

\* initial_state of run_workflow
InitialState(dir) ==
    [status |-> "running",
     output_path |-> dir,
     current_agent_id |-> None,
     agents |-> NoAgents,
     results |-> NoAgents,
     errors |-> <<>>,
     quality_score |-> 0]

Put(f, k, v) == (k :> v) @@ f

\* how many clone_website calls, register/unregister calls and raising
\* send_json calls a behaviour holds
ServiceLimits ==
    [tasks |-> MaxTasks, calls |-> MaxCalls, send_errors |-> MaxSendErrors]
PairLimits ==
    [tasks |-> PairTasks, calls |-> PairCalls, send_errors |-> 0]
LookupLimits ==
    [tasks |-> MaxTasks, calls |-> LookupCalls, send_errors |-> 0]

\* ------------------------------------------------------------ stage input
\* _get_agent_input: the upstream agent ids whose stored results are merged
\* into the input of agent_id
InputSources(agent_id, s) ==
    LET have(ids) == ids \cap DOMAIN s.results IN
    IF agent_id = SEMANTIC_PARSER_2 THEN have({SCRAPER_1})
    ELSE IF agent_id = STYLE_TRANSFER_3
        THEN have({SCRAPER_1, SEMANTIC_PARSER_2})
    ELSE IF agent_id = LAYOUT_GENERATOR_4
        THEN have({SEMANTIC_PARSER_2, STYLE_TRANSFER_3})
    ELSE IF agent_id = COMPONENT_SYNTHESIZER_5
        THEN have({SCRAPER_1, SEMANTIC_PARSER_2, STYLE_TRANSFER_3,
                   LAYOUT_GENERATOR_4})
    ELSE IF agent_id = VALIDATION_6 THEN have({COMPONENT_SYNTHESIZER_5})
    ELSE {}

_get_agent_input(agent_id, s) ==
    [url |-> "url",
     upstream |-> [id \in InputSources(agent_id, s) |-> s.results[id]],
     output_path |-> IF agent_id \in {COMPONENT_SYNTHESIZER_5, VALIDATION_6}
                     THEN s.output_path ELSE None]

\* the keys an agent type puts into its result that a later agent requires
Provides(ty) ==
    IF ty = "scraper" THEN {"html"}
    ELSE IF ty = "component_synthesizer" THEN {"html_output", "css_output"}
    ELSE {}

\* the input keys without which process() raises ValueError
Requires(ty) ==
    IF ty \in {"semantic_parser", "style_transfer"} THEN {"html"}
    ELSE IF ty = "validation" THEN {"html_output", "css_output"}
    ELSE {}

InputKeys(input) == UNION {Provides(id[1]) : id \in DOMAIN input.upstream}

\* process() can return only when its required input keys are present
CanProcess(agent_id, input) == Requires(agent_id[1]) \subseteq InputKeys(input)

\* the run of component_synthesizer_5 whose output is in the input (0: none)
SynthesisSeen(input) ==
    IF COMPONENT_SYNTHESIZER_5 \in DOMAIN input.upstream
    THEN input.upstream[COMPONENT_SYNTHESIZER_5].run ELSE 0

\* the mapping process() returns: ValidationAgent reports quality_score and
\* passed = quality_score >= 90; the other agents report neither
ProcessResult(agent_id, input, n, q) ==
    LET base == [by |-> agent_id, run |-> n, seen |-> SynthesisSeen(input)] IN
    IF agent_id[1] = "validation"
    THEN [quality_score |-> q, passed |-> (q >= PassMark)] @@ base
    ELSE base

\* the quality scores run n of an agent may report: the validation agent
\* rejects before run first_pass and passes from then on
ReportedScores(agent_id, n) ==
    IF agent_id[1] # "validation" THEN {0}
    ELSE IF first_pass # 0 /\ n >= first_pass
    THEN {q \in Scores : q >= PassMark}
    ELSE {q \in Scores : q < PassMark}

\* result.get("passed", False)
GetPassed(result) ==
    IF "passed" \in DOMAIN result THEN result.passed ELSE FALSE

\* result.get("quality_score", 1.0)
GetQualityScore(result) ==
    IF "quality_score" \in DOMAIN result THEN result.quality_score ELSE 1

\* ------------------------------------------------------------ stage handler
\* variant: a re-entry does not count as a retry
handler_enter_nocount(s, agent_id) ==
    [s EXCEPT
        !.current_agent_id = agent_id,
        !.agents =
            IF agent_id \notin DOMAIN s.agents
            THEN Put(s.agents, agent_id,
                     [status |-> "running", retry_count |-> 0])
            ELSE Put(s.agents, agent_id,
                     [s.agents[agent_id] EXCEPT !.status = "running"])]

\* variant: the first entry already counts as a retry
handler_enter_from_one(s, agent_id) ==
    [s EXCEPT
        !.current_agent_id = agent_id,
        !.agents =
            IF agent_id \notin DOMAIN s.agents
            THEN Put(s.agents, agent_id,
                     [status |-> "running", retry_count |-> 1])
            ELSE Put(s.agents, agent_id,
                     [s.agents[agent_id] EXCEPT
                         !.status = "running",
                         !.retry_count = s.agents[agent_id].retry_count + 1])]

\* handler, lines 122-139: create or update the agent state
handler_enter(s, agent_id) ==
    [s EXCEPT
        !.current_agent_id = agent_id,
        !.agents =
            IF agent_id \notin DOMAIN s.agents
            THEN Put(s.agents, agent_id,
                     [status |-> "running", retry_count |-> 0])
            ELSE Put(s.agents, agent_id,
                     [s.agents[agent_id] EXCEPT
                         !.status = "running",
                         !.retry_count = s.agents[agent_id].retry_count + 1])]

\* variant: the reported score is not copied into the workflow state
handler_success_noscore(s, agent_id, result) ==
    [s EXCEPT
        !.agents = Put(s.agents, agent_id,
                       Put([s.agents[agent_id] EXCEPT !.status = "completed"],
                           "result", result)),
        !.results = Put(s.results, agent_id, result),
        !.status = IF agent_id = VALIDATION_6 /\ GetPassed(result)
                   THEN "completed" ELSE s.status]

\* variant: a result that is already stored is kept on a later execution
handler_success_keepfirst(s, agent_id, result) ==
    [s EXCEPT
        !.agents = Put(s.agents, agent_id,
                       Put([s.agents[agent_id] EXCEPT !.status = "completed"],
                           "result", result)),
        !.results = IF agent_id \in DOMAIN s.results
                    THEN s.results ELSE Put(s.results, agent_id, result),
        !.quality_score = IF agent_id = VALIDATION_6
                          THEN GetQualityScore(result) ELSE s.quality_score,
        !.status = IF agent_id = VALIDATION_6 /\ GetPassed(result)
                   THEN "completed" ELSE s.status]

\* handler, lines 160-179: process_sync returned result
handler_success(s, agent_id, result) ==
    [s EXCEPT
        !.agents = Put(s.agents, agent_id,
                       Put([s.agents[agent_id] EXCEPT !.status = "completed"],
                           "result", result)),
        !.results = Put(s.results, agent_id, result),
        !.quality_score = IF agent_id = VALIDATION_6
                          THEN GetQualityScore(result) ELSE s.quality_score,
        !.status = IF agent_id = VALIDATION_6 /\ GetPassed(result)
                   THEN "completed" ELSE s.status]

\* handler, lines 191-209: process_sync raised
handler_failure(s, agent_id) ==
    [s EXCEPT
        !.agents = Put(s.agents, agent_id,
                       Put([s.agents[agent_id] EXCEPT !.status = "failed"],
                           "error", "error")),
        !.errors = Append(s.errors, [agent_id |-> agent_id,
                                     agent_name |-> agent_id[1]]),
        !.status = IF s.agents[agent_id].retry_count >= RetryLimit
                   THEN "failed" ELSE s.status]

\* asyncio.create_task(self.status_callback(state, event, agent_id)); run is
\* history: the task whose run created it
StatusTask(s, event, agent_id, run) ==
    [coro |-> "status_callback", event |-> event, agent_id |-> agent_id,
     output_path |-> s.output_path, run |-> run]

\* ------------------------------------------------------------ graph runner
\* a handler returned its mapping: every key is written to the graph state
NodeReturned(graph, local) == local

\* a handler raised: nothing is written; the objects under agents, results
\* and errors have been mutated in place
NodeRaised(graph, local) ==
    [graph EXCEPT !.agents = local.agents,
                  !.results = local.results,
                  !.errors = local.errors]

\* the router returned its label: its argument is dropped
RouterReturned(graph, local) ==
    [graph EXCEPT !.agents = local.agents,
                  !.results = local.results,
                  !.errors = local.errors]

\* graph.add_edge(from_node, to_node): the sequential edge leaving a node
HasEdge(agents, agent_id) == agent_id[2] < Len(workflow_nodes(agents))

EdgeTarget(agents, agent_id) == workflow_nodes(agents)[agent_id[2] + 1]

\* _validation_router: the edge label, and its argument after the router's
\* assignments to it
_validation_router(s) ==
    LET present == VALIDATION_6 \in DOMAIN s.agents
        validation_result == s.agents[VALIDATION_6]
        give_up == [label |-> "success", state |-> [s EXCEPT !.status = "failed"]]
    IN
    IF ~present \/ validation_result.status = "failed"
    THEN IF present /\ validation_result.retry_count < RetryLimit
         THEN [label |-> "retry", state |-> s]
         ELSE give_up
    ELSE IF "result" \in DOMAIN validation_result
    THEN IF GetPassed(validation_result.result)
         THEN [label |-> "success", state |-> [s EXCEPT !.status = "completed"]]
         ELSE IF s.agents[COMPONENT_SYNTHESIZER_5].retry_count < RetryLimit
              THEN [label |-> "retry", state |-> s]
              ELSE give_up
    ELSE [label |-> "success", state |-> s]

\* variant: the status is returned as the graph left it
FinalStatus_unchanged(s) == s.status

\* run_workflow, lines 335-342: the status after invoke() returned
FinalStatus(s) ==
    IF s.status = "running"
    THEN IF \E id \in DOMAIN s.agents : s.agents[id].status = "failed"
         THEN "failed" ELSE "completed"
    ELSE s.status

\* run_workflow, lines 344-357: initial_state after invoke() raised; its
\* agents, results and errors are the objects the handlers mutated
FailedState(s) ==
    [InitialState(s.output_path) EXCEPT
        !.status = "failed",
        !.agents = s.agents,
        !.results = s.results,
        !.errors = Append(s.errors, [agent_id |-> ORCHESTRATOR,
                                     agent_name |-> "Orchestrator"])]

\* ---------------------------------------------------- generation response
\* generate_website_from_url, lines 360-409
GenerationResponse(ws) ==
    IF ws.status = "completed"
    THEN [status |-> "success",
          quality_score |-> ws.quality_score,
          message |-> "Website generation completed successfully",
          html |-> IF COMPONENT_SYNTHESIZER_5 \in DOMAIN ws.results
                   THEN ws.results[COMPONENT_SYNTHESIZER_5].run ELSE 0,
          validated |-> IF VALIDATION_6 \in DOMAIN ws.results
                        THEN ws.results[VALIDATION_6].run ELSE 0,
          output_path |-> ws.output_path]
    ELSE [status |-> "error",
          quality_score |-> ws.quality_score,
          message |-> IF ws.errors # <<>>
                      THEN ws.errors[Len(ws.errors)].agent_name
                      ELSE "Website generation failed",
          error |-> IF ws.errors # <<>>
                    THEN ws.errors[Len(ws.errors)].agent_name
                    ELSE "Website generation failed"]

\* ------------------------------------------------------------------ actions
\* self.agent_instances once initialize has set it
Agents == agent_instances[1]

\* clone_website: task_id = str(uuid.uuid4()), here the n-th id handed out
TaskId(n) == <<"task", n>>

\* run_workflow: output_dir = join(self.output_dir, str(uuid.uuid4().int)[:20])
\* of the run of task n; os.path.basename(output_path) is this name
\* variant: every run is given the output directory of the first run
RunDir_shared == <<"dir", 1>>

\* run_workflow, lines 305-309: the output directory made for this run
RunDir == <<"dir", runner>>

Bump(f, k) == Put(f, k, IF k \in DOMAIN f THEN f[k] + 1 ELSE 1)
Count(f, k) == IF k \in DOMAIN f THEN f[k] ELSE 0

\* asyncio.create_task of the status callbacks, in creation order
CreateTasks(tasks) ==
    /\ loop_tasks' = loop_tasks \o tasks
    /\ emitted' = [emitted EXCEPT ![runner] = @ \o tasks]

\* run_workflow, lines 305-333: build initial_state, compile, start invoke.
\* A graph without nodes has no entry point and compile() raises.
StartRun ==
    /\ pc = "start"
    /\ state' = InitialState(RunDir)
    /\ calls' = NoAgents
    /\ gate_log' = <<>>
    /\ IF DOMAIN Agents = {}
       THEN pc' = "raised" /\ UNCHANGED node
       ELSE pc' = "node" /\ node' = workflow_nodes(Agents)[1]
    /\ UNCHANGED <<service_vars, final_state, loop_tasks, emitted, response>>

\* process_sync, line 75: future.result() waits for process without a
\* timeout; the stage's declared timeout elapses while the handler waits
TimeoutElapses ==
    /\ pc = "node"
    /\ pc' = "overdue"
    /\ UNCHANGED <<service_vars, node, state, final_state, loop_tasks, emitted,
                   response, calls, gate_log>>

\* handler: process_sync returns; the handler returns state
HandlerCompletes ==
    /\ pc \in {"node", "overdue"}
    /\ LET entered == handler_enter(state, node)
           input == _get_agent_input(node, entered)
       IN /\ CanProcess(node, input)
          /\ \E q \in ReportedScores(node, Count(calls, node) + 1) :
             LET result == ProcessResult(node, input, Count(calls, node) + 1, q)
                 local == handler_success(entered, node, result)
             IN /\ state' = NodeReturned(state, local)
                /\ CreateTasks(<<StatusTask(local, "agent_started", node, runner),
                                 StatusTask(local, "agent_completed", node, runner)>>)
                /\ gate_log' = IF node = VALIDATION_6
                               THEN Append(gate_log, GetPassed(result))
                               ELSE gate_log
    /\ calls' = Bump(calls, node)
    /\ IF node = VALIDATION_6 /\ HasConditionalEdges(Agents)
       THEN pc' = "route" /\ UNCHANGED node
       ELSE IF HasEdge(Agents, node)
       THEN pc' = "node" /\ node' = EdgeTarget(Agents, node)
       ELSE pc' = "invoked" /\ UNCHANGED node
    /\ UNCHANGED <<service_vars, final_state, response>>

\* handler: process_sync raises; the handler re-raises and invoke() raises
HandlerRaises ==
    /\ pc \in {"node", "overdue"}
    /\ LET entered == handler_enter(state, node)
           local == handler_failure(entered, node)
       IN /\ state' = NodeRaised(state, local)
          /\ CreateTasks(<<StatusTask(local, "agent_started", node, runner),
                           StatusTask(local, "agent_failed", node, runner)>>)
    /\ calls' = Bump(calls, node)
    /\ pc' = "raised"
    /\ UNCHANGED <<service_vars, node, final_state, response, gate_log>>

\* the conditional edge leaving validation_6
Route ==
    /\ pc = "route"
    /\ LET out == _validation_router(state) IN
       /\ state' = RouterReturned(state, out.state)
       /\ IF out.label = "retry"
          THEN pc' = "node" /\ node' = COMPONENT_SYNTHESIZER_5
          ELSE pc' = "end" /\ UNCHANGED node
    /\ UNCHANGED <<service_vars, final_state, loop_tasks, emitted, response,
                   calls, gate_log>>

\* _create_end_handler.handler
EndHandler ==
    /\ pc = "end"
    /\ CreateTasks(<<StatusTask(state,
                                IF state.status = "completed"
                                THEN "workflow_completed"
                                ELSE "workflow_failed",
                                NoAgentId, runner)>>)
    /\ pc' = "invoked"
    /\ UNCHANGED <<service_vars, node, state, final_state, response, calls,
                   gate_log>>

\* run_workflow, lines 333-342: invoke() returned
ReturnFinalState ==
    /\ pc = "invoked"
    /\ final_state' = [state EXCEPT !.status = FinalStatus(state)]
    /\ pc' = "returned"
    /\ UNCHANGED <<service_vars, node, state, loop_tasks, emitted, response,
                   calls, gate_log>>

\* run_workflow, lines 344-357: invoke() or compile() raised
ReturnInitialState ==
    /\ pc = "raised"
    /\ final_state' = FailedState(state)
    /\ pc' = "returned"
    /\ UNCHANGED <<service_vars, node, state, loop_tasks, emitted, response,
                   calls, gate_log>>

\* generate_website_from_url, lines 360-409
Respond ==
    /\ pc = "returned"
    /\ response' = GenerationResponse(final_state)
    /\ pc' = "responded"
    /\ UNCHANGED <<service_vars, node, state, final_state, loop_tasks,
                   emitted, calls, gate_log>>

\* ------------------------------------------------------------ specification
Configs ==
    {[i \in 1..Len(tys) |-> AgentConfig(tys[i], ms, mo)] :
        tys \in TypeSeqs, ms \in 0..MaxCfgRetries, mo \in 0..MaxCfgRetries}

\* the state shared by both specifications before anything ran
Idle ==
    /\ active_tasks = <<>>
    /\ websocket_connections = [k \in Keys |-> <<>>]
    /\ sends = <<>>
    /\ delivered = [w \in Observers |-> <<>>]
    /\ at_start = [n \in 1..PairTasks |-> {}]
    /\ unregistered = {}
    /\ dropped = {}
    /\ reply = [call |-> None, task_id |-> <<None, 0>>, value |-> <<>>]
    /\ failed_sends = {}
    /\ api_calls = 0
    /\ emitted = [n \in 1..PairTasks |-> <<>>]
    /\ node = NoAgentId
    /\ state = InitialState(<<"dir", 0>>)
    /\ final_state = InitialState(<<"dir", 0>>)
    /\ loop_tasks = <<>>
    /\ response = [status |-> None]
    /\ calls = NoAgents
    /\ gate_log = <<>>

\* generate_website_from_url called on an initialized service, for every
\* explored configuration and validation behaviour
Init ==
    /\ agent_configs \in Configs
    /\ agent_instances = <<create_agents_from_config(agent_configs)>>
    /\ creations = 1
    /\ orchestrator = "created"
    /\ first_pass \in 0..MaxFirstPass
    /\ limits = ServiceLimits
    /\ runner = 1
    /\ pc = "start"
    /\ Idle

\* ---------------------------------------------------------------- service
\* initialize returns: agents and orchestrator are created when
\* agent_instances is None
initialize ==
    IF agent_instances = <<>>
    THEN /\ agent_instances' = <<create_agents_from_config(agent_configs)>>
         /\ orchestrator' = "created"
         /\ creations' = creations + 1
    ELSE UNCHANGED <<agent_instances, orchestrator, creations>>

\* variant: every run creates agents and an orchestrator of its own
EnsureInitialized_fresh(n) ==
    /\ runner' = n
    /\ \/ /\ agent_instances' = <<create_agents_from_config(agent_configs)>>
          /\ orchestrator' = "created"
          /\ creations' = creations + 1
          /\ pc' = "start"
       \/ /\ agent_instances = <<>>
          /\ pc' = "init_raised"
          /\ UNCHANGED <<agent_instances, orchestrator, creations>>

\* generate_website_from_url, lines 350-352: initialize is awaited when the
\* orchestrator is None, outside the try.  It returns, or creating the agents
\* raises (os.makedirs in their constructors) before anything is assigned and
\* the exception reaches _run_generation_task.
EnsureInitialized(n) ==
    /\ runner' = n
    /\ IF orchestrator # None
       THEN pc' = "start" /\ UNCHANGED <<agent_instances, orchestrator, creations>>
       ELSE \/ initialize /\ pc' = "start"
            \/ /\ agent_instances = <<>>
               /\ pc' = "init_raised"
               /\ UNCHANGED <<agent_instances, orchestrator, creations>>

\* the message of a task event and of a status event; run is history
TaskMessage(event, n) ==
    [event |-> event, task_id |-> TaskId(n), agent_id |-> NoAgentId, run |-> n]

\* _handle_agent_status_update: task_id = os.path.basename(output_path)
StatusMessage(task) ==
    [event |-> task.event, task_id |-> task.output_path,
     agent_id |-> task.agent_id, run |-> task.run]

\* a _notify_clients call about to fetch element i of the list
NotifyLoop(key, message, then) ==
    [key |-> key, message |-> message, i |-> 1, to |-> None, then |-> then]

\* _notify_clients: the for loop fetches the next websocket of the list and
\* calls send_json, where the coroutine is suspended; when the list is
\* exhausted the caller goes on: _run_generation_task to
\* generate_website_from_url after task_started, the others return
Iterate(loop, others) ==
    LET conns == websocket_connections[loop.key] IN
    IF loop.i <= Len(conns)
    THEN /\ sends' = Append(others, [loop EXCEPT !.i = @ + 1,
                                                  !.to = conns[loop.i]])
         /\ pc' = "idle"
         /\ UNCHANGED <<runner, agent_instances, orchestrator, creations>>
    ELSE /\ sends' = others
         /\ IF loop.then = "generate"
            THEN EnsureInitialized(loop.message.run)
            ELSE /\ pc' = "idle"
                 /\ UNCHANGED <<runner, agent_instances, orchestrator, creations>>

run_vars == <<node, state, final_state, response, calls, gate_log>>

\* The event loop runs the callbacks that are ready in the order they were
\* scheduled: the status callback tasks a run created start, one after the
\* other, before a coroutine that becomes ready later (an API call arriving,
\* a send_json returning) gets to run.
CallbackPending ==
    \E i \in 1..Len(loop_tasks) : loop_tasks[i].coro = "status_callback"

\* clone_website: store the task, create the background task
clone_website ==
    /\ pc = "idle"
    /\ ~CallbackPending
    /\ Len(active_tasks) < limits.tasks
    /\ active_tasks' = Append(active_tasks,
                              [status |-> "pending", result |-> [status |-> None]])
    /\ loop_tasks' = Append(loop_tasks,
            [coro |-> "_run_generation_task", event |-> None,
             agent_id |-> NoAgentId, output_path |-> None,
             run |-> Len(active_tasks) + 1])
    /\ UNCHANGED <<agent_configs, dropped, limits, reply, failed_sends, agent_instances, orchestrator, creations,
                   websocket_connections, sends, delivered, at_start,
                   unregistered, emitted, api_calls, runner, pc, first_pass,
                   run_vars>>

\* The keys a caller can pass to register_websocket.  Task ids and run
\* directory names are random uuids: a caller knows the id clone_website
\* returned, and the directory name once a stored result shows output_path.
KnownKeys ==
    {TaskId(n) : n \in 1..Len(active_tasks)}
    \cup {<<"dir", n>> : n \in {m \in 1..Len(active_tasks) :
                                   active_tasks[m].result.status = "success"}}

\* register_websocket(task_id, websocket)
register_websocket(key, w) ==
    /\ pc = "idle"
    /\ ~CallbackPending
    /\ key \in KnownKeys
    /\ api_calls < limits.calls
    /\ api_calls' = api_calls + 1
    /\ websocket_connections' =
            [websocket_connections EXCEPT ![key] = Append(@, w)]
    /\ dropped' = dropped \ {<<key, w>>}
    /\ UNCHANGED <<agent_configs, limits, reply, failed_sends, agent_instances, orchestrator, creations, active_tasks,
                   sends, delivered, at_start, unregistered, emitted, runner,
                   pc, first_pass, loop_tasks, run_vars>>

\* list.remove(x): drop the first occurrence of x
Remove(list, x) ==
    LET k == CHOOSE i \in 1..Len(list) :
                 list[i] = x /\ \A j \in 1..(i - 1) : list[j] # x
    IN [i \in 1..(Len(list) - 1) |-> IF i < k THEN list[i] ELSE list[i + 1]]

Elements(list) == {list[i] : i \in 1..Len(list)}

\* unregister_websocket(task_id, websocket), for a registered websocket
unregister_websocket(key, w) ==
    /\ pc = "idle"
    /\ ~CallbackPending
    /\ api_calls < limits.calls
    /\ w \in Elements(websocket_connections[key])
    /\ api_calls' = api_calls + 1
    /\ websocket_connections' =
            [websocket_connections EXCEPT ![key] = Remove(@, w)]
    /\ unregistered' = unregistered \cup {<<key, w>>}
    /\ dropped' = dropped \cup {<<key, w>>}
    /\ UNCHANGED <<agent_configs, limits, reply, failed_sends, agent_instances, orchestrator, creations, active_tasks,
                   sends, delivered, at_start, emitted, runner, pc,
                   first_pass, loop_tasks, run_vars>>

\* _run_generation_task, lines 138-150: the background task starts; the
\* tasks of the event loop start in creation order
RunGenerationTask ==
    /\ pc = "idle"
    /\ loop_tasks # <<>>
    /\ Head(loop_tasks).coro = "_run_generation_task"
    /\ LET n == Head(loop_tasks).run IN
       /\ active_tasks' = [active_tasks EXCEPT ![n].status = "running"]
       /\ at_start' = [at_start EXCEPT
                           ![n] = Elements(websocket_connections[TaskId(n)])]
       /\ Iterate(NotifyLoop(TaskId(n), TaskMessage("task_started", n),
                             "generate"), sends)
    /\ loop_tasks' = Tail(loop_tasks)
    /\ UNCHANGED <<agent_configs, dropped, limits, reply, delivered, failed_sends,
                   websocket_connections, unregistered,
                   emitted, api_calls, first_pass, run_vars>>

\* _handle_agent_status_update: a status callback task starts
HandleAgentStatusUpdate ==
    /\ pc = "idle"
    /\ loop_tasks # <<>>
    /\ Head(loop_tasks).coro = "status_callback"
    /\ Iterate(NotifyLoop(Head(loop_tasks).output_path,
                          StatusMessage(Head(loop_tasks)), "done"), sends)
    /\ loop_tasks' = Tail(loop_tasks)
    /\ UNCHANGED <<agent_configs, dropped, limits, reply, delivered, failed_sends, active_tasks,
                   websocket_connections,
                   at_start, unregistered, emitted, api_calls, first_pass,
                   run_vars>>

\* the outcome of a send_json: the websocket got the message, or the call
\* raised and the except clause of _notify_clients swallowed it
SendOutcome(loop) ==
    \/ /\ delivered' = [delivered EXCEPT ![loop.to] = Append(@, loop.message)]
       /\ UNCHANGED failed_sends
    \/ /\ Cardinality(failed_sends) < limits.send_errors
       /\ failed_sends' = failed_sends \cup
                {<<loop.to, loop.message.event, loop.message.run>>}
       /\ UNCHANGED delivered

\* variant: a send_json that raises ends the loop of _notify_clients
Resume_propagates(k) ==
    /\ pc = "idle"
    /\ ~CallbackPending
    /\ k \in 1..Len(sends)
    /\ \A j \in 1..(k - 1) : sends[j].to # sends[k].to
    /\ SendOutcome(sends[k])
    /\ LET others == [i \in 1..(Len(sends) - 1) |->
                         IF i < k THEN sends[i] ELSE sends[i + 1]]
       IN IF failed_sends' # failed_sends
          THEN /\ sends' = others
               /\ UNCHANGED <<pc, runner, agent_instances, orchestrator, creations>>
          ELSE Iterate(sends[k], others)
    /\ UNCHANGED <<agent_configs, dropped, limits, reply, active_tasks, websocket_connections,
                   at_start, unregistered, emitted, api_calls, first_pass,
                   loop_tasks, run_vars>>

\* send_json returned or raised: the suspended _notify_clients goes on;
\* the sends on one websocket finish in the order they were started
Resume(k) ==
    /\ pc = "idle"
    /\ ~CallbackPending
    /\ k \in 1..Len(sends)
    /\ \A j \in 1..(k - 1) : sends[j].to # sends[k].to
    /\ SendOutcome(sends[k])
    /\ Iterate(sends[k],
               [i \in 1..(Len(sends) - 1) |->
                    IF i < k THEN sends[i] ELSE sends[i + 1]])
    /\ UNCHANGED <<agent_configs, dropped, limits, reply, active_tasks, websocket_connections,
                   at_start, unregistered, emitted, api_calls, first_pass,
                   loop_tasks, run_vars>>

\* _run_generation_task, lines 150-161: generate_website_from_url returned
FinishGenerationTask ==
    /\ pc = "responded"
    /\ active_tasks' = [active_tasks EXCEPT
            ![runner] = [status |-> IF response.status = "success"
                                    THEN "completed" ELSE "failed",
                         result |-> response]]
    /\ Iterate(NotifyLoop(TaskId(runner),
                          TaskMessage(IF response.status = "success"
                                      THEN "task_completed" ELSE "task_failed",
                                      runner),
                          "done"), sends)
    /\ UNCHANGED <<agent_configs, dropped, limits, reply, delivered, failed_sends,
                   websocket_connections, at_start,
                   unregistered, emitted, api_calls, first_pass, loop_tasks,
                   run_vars>>

\* variant: the exception leaves the background task unrecorded
FailGenerationTask_escapes ==
    /\ pc = "init_raised"
    /\ pc' = "idle"
    /\ UNCHANGED <<agent_configs, dropped, limits, reply, failed_sends, agent_instances, orchestrator, creations, active_tasks,
                   websocket_connections, sends, delivered, at_start,
                   unregistered, emitted, api_calls, runner, first_pass,
                   loop_tasks, run_vars>>

\* _run_generation_task, lines 163-176: generate_website_from_url raised
FailGenerationTask ==
    /\ pc = "init_raised"
    /\ active_tasks' = [active_tasks EXCEPT
            ![runner] = Put([@ EXCEPT !.status = "failed"], "error", "error")]
    /\ Iterate(NotifyLoop(TaskId(runner), TaskMessage("task_failed", runner),
                          "done"), sends)
    /\ UNCHANGED <<agent_configs, dropped, limits, reply, delivered, failed_sends,
                   websocket_connections, at_start,
                   unregistered, emitted, api_calls, first_pass, loop_tasks,
                   run_vars>>

\* task_id in self.active_tasks
InActiveTasks(task_id) ==
    task_id[1] = "task" /\ task_id[2] \in 1..Len(active_tasks)

\* variant: the result is reported for completed tasks only
get_task_status_completed_only(task_id) ==
    IF ~InActiveTasks(task_id)
    THEN [status |-> "not_found"]
    ELSE LET task_data == active_tasks[task_id[2]]
             basic == [task_id |-> task_id, status |-> task_data.status]
             with_result ==
                 IF task_data.status = "completed"
                    /\ task_data.result.status # None
                 THEN Put(basic, "result", task_data.result) ELSE basic
         IN IF task_data.status \in {"completed", "failed"}
               /\ "error" \in DOMAIN task_data
            THEN Put(with_result, "error", task_data.error) ELSE with_result

\* get_task_status(task_id): the status data returned
get_task_status(task_id) ==
    IF ~InActiveTasks(task_id)
    THEN [status |-> "not_found"]
    ELSE LET task_data == active_tasks[task_id[2]]
             basic == [task_id |-> task_id, status |-> task_data.status]
             with_result ==
                 IF task_data.status \in {"completed", "failed"}
                    /\ task_data.result.status # None
                 THEN Put(basic, "result", task_data.result) ELSE basic
         IN IF task_data.status \in {"completed", "failed"}
               /\ "error" \in DOMAIN task_data
            THEN Put(with_result, "error", task_data.error) ELSE with_result

\* variant: the stored result is returned for every terminal status
get_task_result_terminal(task_id) ==
    IF ~InActiveTasks(task_id)
    THEN <<>>
    ELSE LET task_data == active_tasks[task_id[2]] IN
         IF task_data.status \notin {"completed", "failed"}
            \/ task_data.result.status = None
         THEN <<>>
         ELSE <<task_data.result>>

\* get_task_result(task_id): <<>> for None, <<result>> for a result
get_task_result(task_id) ==
    IF ~InActiveTasks(task_id)
    THEN <<>>
    ELSE LET task_data == active_tasks[task_id[2]] IN
         IF task_data.status # "completed" \/ task_data.result.status = None
         THEN <<>>
         ELSE <<task_data.result>>

\* variant: a lookup of an id that is not stored stores a pending record
GetTaskStatus_creates(task_id) ==
    /\ pc = "idle"
    /\ ~CallbackPending
    /\ reply' = [call |-> "get_task_status", task_id |-> task_id,
                 value |-> <<get_task_status(task_id)>>]
    /\ active_tasks' =
            IF task_id = TaskId(Len(active_tasks) + 1)
            THEN Append(active_tasks,
                        [status |-> "pending", result |-> [status |-> None]])
            ELSE active_tasks
    /\ UNCHANGED <<agent_configs, dropped, limits, failed_sends,
                   agent_instances, orchestrator, creations, websocket_connections,
                   sends, delivered, at_start, unregistered, emitted,
                   api_calls, runner, pc, first_pass, loop_tasks, run_vars>>

\* a call of get_task_status(task_id): nothing is assigned, the status data
\* is returned
GetTaskStatus(task_id) ==
    /\ pc = "idle"
    /\ ~CallbackPending
    /\ reply' = [call |-> "get_task_status", task_id |-> task_id,
                 value |-> <<get_task_status(task_id)>>]
    /\ UNCHANGED <<agent_configs, dropped, limits, failed_sends,
                   agent_instances, orchestrator, creations, active_tasks,
                   websocket_connections, sends, delivered, at_start,
                   unregistered, emitted, api_calls, runner, pc, first_pass,
                   loop_tasks, run_vars>>

\* a call of get_task_result(task_id): nothing is assigned, the result or
\* None is returned
GetTaskResult(task_id) ==
    /\ pc = "idle"
    /\ ~CallbackPending
    /\ reply' = [call |-> "get_task_result", task_id |-> task_id,
                 value |-> get_task_result(task_id)]
    /\ UNCHANGED <<agent_configs, dropped, limits, failed_sends,
                   agent_instances, orchestrator, creations, active_tasks,
                   websocket_connections, sends, delivered, at_start,
                   unregistered, emitted, api_calls, runner, pc, first_pass,
                   loop_tasks, run_vars>>

Next ==
    \/ StartRun
    \/ TimeoutElapses
    \/ HandlerCompletes
    \/ HandlerRaises
    \/ Route
    \/ EndHandler
    \/ ReturnFinalState
    \/ ReturnInitialState
    \/ Respond

Spec == Init /\ [][Next]_vars

\* the service as constructed at import: default agents, nothing initialized
SvcInit ==
    /\ agent_configs = [i \in 1..6 |->
            AgentConfig(DefaultTypes[i], DefaultMaxRetries, DefaultMaxRetries)]
    /\ agent_instances = <<>>
    /\ orchestrator = None
    /\ creations = 0
    /\ first_pass \in 0..MaxSvcFirstPass
    /\ limits = ServiceLimits
    /\ runner = 0
    /\ pc = "idle"
    /\ Idle

SvcNext ==
    \/ clone_website
    \/ \E key \in Keys, w \in Observers : register_websocket(key, w)
    \/ \E key \in Keys, w \in Observers : unregister_websocket(key, w)
    \/ RunGenerationTask
    \/ HandleAgentStatusUpdate
    \/ \E k \in 1..Len(sends) : Resume(k)
    \/ FinishGenerationTask
    \/ FailGenerationTask
    \/ Next

SvcSpec == SvcInit /\ [][SvcNext]_vars

\* two clone requests whose background tasks share the event loop
PairInit ==
    /\ agent_configs = [i \in 1..6 |->
            AgentConfig(DefaultTypes[i], DefaultMaxRetries, DefaultMaxRetries)]
    /\ agent_instances = <<>>
    /\ orchestrator = None
    /\ creations = 0
    /\ first_pass \in 0..MaxSvcFirstPass
    /\ limits = PairLimits
    /\ runner = 0
    /\ pc = "idle"
    /\ Idle

PairSpec == PairInit /\ [][SvcNext]_vars

\* the service with callers that look tasks up, under ids clone_website
\* returned and under ids it did not
LookupInit ==
    /\ agent_configs = [i \in 1..6 |->
            AgentConfig(DefaultTypes[i], DefaultMaxRetries, DefaultMaxRetries)]
    /\ agent_instances = <<>>
    /\ orchestrator = None
    /\ creations = 0
    /\ first_pass \in 0..MaxSvcFirstPass
    /\ limits = LookupLimits
    /\ runner = 0
    /\ pc = "idle"
    /\ Idle

LookupNext ==
    \/ SvcNext
    \/ \E task_id \in Keys : GetTaskStatus(task_id)
    \/ \E task_id \in Keys : GetTaskResult(task_id)

LookupSpec == LookupInit /\ [][LookupNext]_vars

\* The event loop runs every task it holds, a send_json that was started
\* returns or raises, and a stage invocation returns or raises.
SvcFairness ==
    /\ WF_vars(RunGenerationTask)
    /\ WF_vars(HandleAgentStatusUpdate)
    /\ WF_vars(\E k \in 1..Len(sends) : Resume(k))
    /\ WF_vars(FinishGenerationTask)
    /\ WF_vars(FailGenerationTask)
    /\ WF_vars(Next)

SvcLiveSpec == SvcSpec /\ SvcFairness

\* ------------------------------------------------------------------ claims
Returned == pc \in {"returned", "responded"}

\* no handler raised during the run
NoStageRaised == state.errors = <<>>

\* the retry budget configured for the synthesis stage
SynthesisMaxRetries == agent_configs[5].max_retries

\* the validation stage ran and none of its runs reported passed
GateAlwaysRejected ==
    /\ gate_log # <<>>
    /\ \A i \in 1..Len(gate_log) : ~gate_log[i]

\* C1: run_workflow returns a WorkflowState whose status is completed or
\* failed, for every stage sequence and every combination of stage outcomes;
\* it is never returned as pending or running.
C1_ReturnedStatusIsTerminal ==
    Returned => final_state.status \in {"completed", "failed"}

\* C1 witness: a run that went through a retry round and then had a stage
\* raise has returned
C1_Witness ==
    /\ Returned
    /\ Len(gate_log) >= 1
    /\ ~NoStageRaised
    /\ final_state.status = "failed"

\* C2 (as claimed): when every validation run reports passed=false the run
\* ends after at most synthesis.max_retries + 1 synthesis runs and the
\* returned status is failed.
C2_RejectingGateEndsFailedWithinBudget ==
    (Returned /\ NoStageRaised /\ GateAlwaysRejected) =>
        /\ Count(calls, COMPONENT_SYNTHESIZER_5) <= SynthesisMaxRetries + 1
        /\ final_state.status = "failed"

\* C3 (as claimed): a stage whose capability raised on every attempt has been
\* invoked exactly max_retries + 1 times when the run ends, the run ends
\* failed, and errors is not empty.
C3_RaisingStageIsRetriedToBudget ==
    Returned =>
        \A id \in DOMAIN final_state.agents :
            ("result" \notin DOMAIN final_state.agents[id]) =>
                /\ Count(calls, id) = agent_configs[id[2]].max_retries + 1
                /\ final_state.status = "failed"
                /\ Len(final_state.errors) >= 1

\* C4 (as claimed): in every returned state, every stage id with an entry
\* in results has agents[id].status = completed.
C4_ResultsOnlyOfCompletedStages ==
    Returned =>
        \A id \in DOMAIN final_state.results :
            /\ id \in DOMAIN final_state.agents
            /\ final_state.agents[id].status = "completed"

\* C8 (as claimed): the retry loop is bounded by the configured max_retries
\* m of the synthesis stage: an always rejecting gate leads to exactly m + 1
\* synthesis runs and to status failed.
C8_RetryLoopBoundIsConfiguredBudget ==
    (Returned /\ NoStageRaised /\ first_pass = 0 /\ gate_log # <<>>) =>
        /\ Count(calls, COMPONENT_SYNTHESIZER_5) = SynthesisMaxRetries + 1
        /\ final_state.status = "failed"

\* C9 (as claimed): when the gate rejects its first k-1 runs and passes its
\* k-th, with k-1 within the synthesis retry budget, synthesis runs exactly k
\* times and the run ends completed.
C9_PassOnKthRunCompletesAfterKSyntheses ==
    (/\ Returned
     /\ NoStageRaised
     /\ HasConditionalEdges(Agents)
     /\ first_pass >= 1
     /\ first_pass - 1 <= SynthesisMaxRetries) =>
        /\ Count(calls, COMPONENT_SYNTHESIZER_5) = first_pass
        /\ final_state.status = "completed"

\* C10: when the first validation run reports passed=true with score q,
\* every stage has run exactly once, the run is returned completed with
\* quality_score q, and the GenerationResponse is a success with score q.
C10_FirstPassCompletesWithScore ==
    (pc = "responded" /\ gate_log # <<>> /\ gate_log[1]) =>
        LET q == final_state.agents[VALIDATION_6].result.quality_score IN
        /\ \A id \in DOMAIN Agents : Count(calls, id) = 1
        /\ final_state.status = "completed"
        /\ final_state.quality_score = q
        /\ response.status = "success"
        /\ response.quality_score = q

\* C10 witness: the first validation run passed with score 95 and the
\* response has been built
C10_Witness ==
    /\ pc = "responded"
    /\ gate_log = <<TRUE>>
    /\ final_state.results[VALIDATION_6].quality_score = 95
    /\ response.status = "success"

\* ---------------------------------------------------- claims on the events
AgentEvents == {"agent_started", "agent_completed", "agent_failed"}
TerminalEvents == {"task_completed", "task_failed"}

\* what observer w received about the run of task n, in delivery order
EventsOf(w, n) == SelectSeq(delivered[w], LAMBDA m : m.run = n)

\* the agent_* events among a sequence of events or of status callbacks
AgentEventsIn(seq) == SelectSeq(seq, LAMBDA m : m.event \in AgentEvents)

\* task n reached its terminal status and nothing of it is left to deliver
TaskSettled(n) ==
    /\ n <= Len(active_tasks)
    /\ active_tasks[n].status \in {"completed", "failed"}
    /\ \A i \in 1..Len(sends) : sends[i].message.run # n
    /\ \A i \in 1..Len(loop_tasks) : loop_tasks[i].run # n

\* w was registered under the id of task n when the task started, once, and
\* was never unregistered from it, and no send_json to it raised
ObserverOf(n, w) ==
    /\ w \in at_start[n]
    /\ \A f \in failed_sends : f[1] # w
    /\ <<TaskId(n), w>> \notin unregistered
    /\ Cardinality({i \in 1..Len(websocket_connections[TaskId(n)]) :
                        websocket_connections[TaskId(n)][i] = w}) = 1

RECURSIVE InOrderOf(_, _)
\* the events of got occur, in this order, among the callbacks of sent
InOrderOf(got, sent) ==
    IF got = <<>> THEN TRUE
    ELSE IF sent = <<>> THEN FALSE
    ELSE IF /\ Head(got).event = Head(sent).event
            /\ Head(got).agent_id = Head(sent).agent_id
         THEN InOrderOf(Tail(got), Tail(sent))
         ELSE InOrderOf(got, Tail(sent))

\* C5: once a task is settled, an observer registered for it from its start
\* has received exactly one of task_completed / task_failed, as the last
\* event of the task, and the agent_* events in the order of their emission.
C5_OneTerminalEventLastAndInOrder ==
    \A n \in 1..MaxTasks : \A w \in Observers :
        (TaskSettled(n) /\ ObserverOf(n, w)) =>
            LET got == EventsOf(w, n) IN
            /\ Len(SelectSeq(got, LAMBDA m : m.event \in TerminalEvents)) = 1
            /\ got[Len(got)].event \in TerminalEvents
            /\ InOrderOf(AgentEventsIn(got), AgentEventsIn(emitted[n]))

\* C6: the first event of a task that an observer registered under the
\* task's id when the task started receives is task_started.
C6_FirstEventIsTaskStarted ==
    \A n \in 1..MaxTasks : \A w \in Observers :
        (ObserverOf(n, w) /\ EventsOf(w, n) # <<>>) =>
            EventsOf(w, n)[1].event = "task_started"

\* C7: once a task is settled, every agent_* event its run emitted has been
\* delivered to the observers registered under the id clone_website returned.
C7_AgentEventsReachTaskObservers ==
    \A n \in 1..MaxTasks : \A w \in Observers :
        (TaskSettled(n) /\ ObserverOf(n, w)) =>
            \A i \in 1..Len(emitted[n]) :
                emitted[n][i].event \in AgentEvents =>
                    \E j \in 1..Len(delivered[w]) :
                        /\ delivered[w][j].run = n
                        /\ delivered[w][j].event = emitted[n][i].event
                        /\ delivered[w][j].agent_id = emitted[n][i].agent_id

\* ------------------------------------------------- claims on retry and halt
\* C11 (as claimed): in every state of a run, the retry_count of every stage
\* is at most the max_retries configured for that stage plus one.
C11_RetryCountWithinConfiguredBudget ==
    \A id \in DOMAIN state.agents :
        state.agents[id].retry_count <= agent_configs[id[2]].max_retries + 1

\* a handler raised and run_workflow returned: the error entries the handlers
\* appended, and the stage whose failure was recorded last
StageErrors ==
    SelectSeq(final_state.errors, LAMBDA e : e.agent_id # ORCHESTRATOR)
Halted == Returned /\ StageErrors # <<>>
FailedStage == StageErrors[Len(StageErrors)].agent_id

\* the stages with an entry in the returned agents or results map that come
\* after stage id in configuration order
EntriesAfter(id) ==
    {later \in DOMAIN final_state.agents \cup DOMAIN final_state.results :
        later[2] > id[2]}

\* C12 (as claimed): when a stage raised and the run halted, the returned
\* agents and results maps have no entry for a stage after the failing one.
C12_NoEntryAfterFailingStage ==
    Halted => EntriesAfter(FailedStage) = {}

\* C12 (amended): when a stage raised and the run halted, no stage has been
\* entered after the failure; the returned maps have an entry for a later
\* stage only when the failing stage raised on a re-entry, and that later
\* stage had completed in an earlier round.
C12_NoEntryAfterFailingStageButEarlierRounds ==
    Halted =>
        /\ final_state.agents[FailedStage].status = "failed"
        /\ \A later \in EntriesAfter(FailedStage) :
            /\ final_state.agents[FailedStage].retry_count >= 1
            /\ final_state.agents[later].status = "completed"
            /\ Count(calls, later) < Count(calls, FailedStage)

\* C12 witness: the scraper raised and nothing else has an entry
C12_Witness ==
    /\ Halted
    /\ FailedStage = SCRAPER_1
    /\ DOMAIN final_state.agents = {SCRAPER_1}
    /\ final_state.results = NoAgents

\* the router ended the run because the gate rejected and the synthesis
\* stage had no retry left (_validation_router, lines 256-263)
RetryBudgetExhausted ==
    /\ Returned
    /\ HasConditionalEdges(Agents)
    /\ GateAlwaysRejected
    /\ final_state.agents[VALIDATION_6].status = "completed"
    /\ final_state.agents[COMPONENT_SYNTHESIZER_5].status = "completed"
    /\ final_state.agents[COMPONENT_SYNTHESIZER_5].retry_count >= RetryLimit

\* C13 (as claimed): a run that ended failed, because an exception escaped
\* the traversal or because the retry budget was exhausted after gate
\* rejections, has a non-empty errors list whose last entry tells the failure.
C13_FailedRunHasFinalError ==
    (Returned /\ (final_state.status = "failed" \/ RetryBudgetExhausted)) =>
        /\ final_state.status = "failed"
        /\ final_state.errors # <<>>

\* ---------------------------------------------- claims on the task boundary
\* C14 (as claimed): when a run failed because a stage raised, the
\* GenerationResponse has status error and its message names the stage whose
\* failure was recorded last.
C14_ErrorMessageNamesFailedStage ==
    (pc = "responded" /\ Halted) =>
        /\ response.status = "error"
        /\ response.message = FailedStage[1]

FailedTasks == {n \in 1..Len(active_tasks) : active_tasks[n].status = "failed"}

\* C15 (as claimed): for every failed task, get_task_status returns status
\* failed and the status data has an error entry.
C15_FailedStatusHasErrorEntry ==
    \A n \in FailedTasks :
        /\ get_task_status(TaskId(n)).status = "failed"
        /\ "error" \in DOMAIN get_task_status(TaskId(n))

\* C15 (amended): for every failed task, get_task_status returns status
\* failed and an error string: as the error entry of the status data when
\* generate_website_from_url raised, as the error field of its result entry
\* when the run failed.
C15_FailedStatusHasErrorString ==
    \A n \in FailedTasks :
        LET status_data == get_task_status(TaskId(n)) IN
        /\ status_data.status = "failed"
        /\ \/ "error" \in DOMAIN status_data
           \/ /\ "result" \in DOMAIN status_data
              /\ status_data.result.status = "error"
              /\ "error" \in DOMAIN status_data.result

\* C15 witness: a task whose run failed is reported failed with the error
\* string inside its result
C15_Witness ==
    \E n \in FailedTasks :
        /\ "error" \notin DOMAIN get_task_status(TaskId(n))
        /\ get_task_status(TaskId(n)).result.error = "Orchestrator"

TerminalStatus == {"completed", "failed"}

\* C16 (as claimed): get_task_result returns nothing exactly when the id is
\* unknown or the task is not in a terminal state; for a completed or failed
\* task it returns the stored GenerationResponse.
C16_ResultForEveryTerminalTask ==
    \A task_id \in Keys :
        LET terminal == /\ InActiveTasks(task_id)
                        /\ active_tasks[task_id[2]].status \in TerminalStatus
        IN /\ (get_task_result(task_id) = <<>>) <=> ~terminal
           /\ terminal =>
                get_task_result(task_id) = <<active_tasks[task_id[2]].result>>

\* C16 (amended): get_task_result returns nothing exactly when the id is
\* unknown or the task's status is not completed; for a completed task it
\* returns the stored GenerationResponse, which is a success.
C16_ResultForCompletedTaskOnly ==
    \A task_id \in Keys :
        LET completed == /\ InActiveTasks(task_id)
                         /\ active_tasks[task_id[2]].status = "completed"
        IN /\ (get_task_result(task_id) = <<>>) <=> ~completed
           /\ completed =>
                /\ get_task_result(task_id) = <<active_tasks[task_id[2]].result>>
                /\ get_task_result(task_id)[1].status = "success"

\* C16 witness: one task is completed and its result is returned, and an
\* unknown id gets nothing
C16_Witness ==
    /\ Len(active_tasks) = 1
    /\ active_tasks[1].status = "completed"
    /\ get_task_result(TaskId(1)) # <<>>
    /\ get_task_result(<<"dir", 1>>) = <<>>

\* the validation handler raises in this step, with conditional edges built
\* and its retry_count below the coded and the configured retry budget
GateRaisesWithinBudget ==
    /\ pc \in {"node", "overdue"}
    /\ node = VALIDATION_6
    /\ HasConditionalEdges(Agents)
    /\ VALIDATION_6 \in DOMAIN state'.agents
    /\ state'.agents[VALIDATION_6].status = "failed"
    /\ state'.agents[VALIDATION_6].retry_count < RetryLimit
    /\ state'.agents[VALIDATION_6].retry_count < agent_configs[6].max_retries

\* C17 (as claimed): when the gate stage raises while its retry_count is
\* below the retry budget, the workflow goes back to the synthesis stage
\* instead of ending the run.
C17_GateFailureLoopsBackToSynthesis ==
    [][GateRaisesWithinBudget =>
            (pc' = "node" /\ node' = COMPONENT_SYNTHESIZER_5)]_vars

\* C18 (as claimed): a stage whose capability has not returned within its
\* declared timeout is a failed attempt: the handler leaves the wait through
\* its failure path, with the stage failed and an error entry appended.
C18_OverdueStageFails ==
    [][pc = "overdue" =>
            /\ state'.agents[node].status = "failed"
            /\ Len(state'.errors) = Len(state.errors) + 1]_vars

\* C19: every task clone_website created eventually has status completed or
\* failed, when stage invocations and sends return or raise; an exception
\* of the background run is recorded as status failed.
C19_TaskEventuallyTerminal ==
    \A n \in 1..MaxTasks :
        (Len(active_tasks) >= n) ~>
            (/\ Len(active_tasks) >= n
             /\ active_tasks[n].status \in TerminalStatus)

\* C19 witness: generate_website_from_url raised in the background task and
\* the task is recorded failed with its error
C19_Witness ==
    /\ Len(active_tasks) = 1
    /\ pc = "idle"
    /\ active_tasks[1].status = "failed"
    /\ "error" \in DOMAIN active_tasks[1]

\* the event that tells observers the terminal status of task n
TerminalEventOf(n) ==
    IF active_tasks[n].status = "completed" THEN "task_completed"
    ELSE "task_failed"

StartsSend == sends' # sends /\ Len(sends') >= Len(sends) /\ sends' # <<>>
StartedSend == sends'[Len(sends')]

\* C21 (as claimed): once unregister_websocket(task_id, observer) has
\* completed and the observer has not been registered again, no event of the
\* task is sent to the observer, however often it had been registered.
C21_NoEventAfterUnregister ==
    [][StartsSend => <<StartedSend.key, StartedSend.to>> \notin dropped]_vars

\* ------------------------------------------------ claims on concurrent tasks
\* the keys under which the events of task n are published
KeysOf(n) == {TaskId(n), <<"dir", n>>}

\* the WorkflowState of the run in progress holds records, results and
\* stage errors of stages this run has entered, and its own directory
RunStateIsOwn ==
    /\ pc \notin {"idle", "start", "init_raised"} =>
            state.output_path = <<"dir", runner>>
    /\ \A id \in DOMAIN state.agents \cup DOMAIN state.results :
            Count(calls, id) >= 1
    /\ \A id \in DOMAIN state.results : state.results[id].run <= calls[id]
    /\ \A i \in 1..Len(state.errors) :
            \/ state.errors[i].agent_id = ORCHESTRATOR
            \/ Count(calls, state.errors[i].agent_id) >= 1
    /\ \A n \in 1..Len(active_tasks) :
            LET t == active_tasks[n] IN
            ("result" \in DOMAIN t /\ "output_path" \in DOMAIN t.result)
                => t.result.output_path = <<"dir", n>>

\* what the observers got are events of the task under whose key they were
\* sent
DeliveredUnderOwnKey ==
    \A w \in Observers : \A i \in 1..Len(delivered[w]) :
        delivered[w][i].task_id \in KeysOf(delivered[w][i].run)

\* C22: with two tasks in flight, the WorkflowState of a run holds only what
\* this run produced, and an event of task A is sent only to a websocket
\* that is registered under a key of task A at that moment.
C22_TasksAreIsolated ==
    /\ [](RunStateIsOwn /\ DeliveredUnderOwnKey)
    /\ [][StartsSend =>
            /\ StartedSend.key \in KeysOf(StartedSend.message.run)
            /\ StartedSend.to \in
                    Elements(websocket_connections[StartedSend.key])]_vars

\* the run of task 2 is under way while task 1 waits in a send_json, and an
\* observer of task 2 has got an event
C22_Witness ==
    /\ Len(active_tasks) = 2
    /\ active_tasks[1].status = "running"
    /\ active_tasks[2].status = "running"
    /\ runner = 2
    /\ pc = "node"
    /\ state.results # NoAgents
    /\ \E k \in 1..Len(sends) : sends[k].message.run = 1
    /\ \E w \in Observers :
            /\ delivered[w] # <<>>
            /\ w \notin Elements(websocket_connections[TaskId(1)])

\* ------------------------------------------------------ claims on lookups
\* C23: get_task_status and get_task_result change neither the task map,
\* nor a task record, nor the subscriber mapping, and get_task_status of an
\* id clone_website never returned answers not_found and stores no record.
C23_LookupsArePure ==
    [][reply' # reply =>
        /\ active_tasks' = active_tasks
        /\ websocket_connections' = websocket_connections
        /\ (reply'.call = "get_task_status" /\ ~InActiveTasks(reply'.task_id))
             => reply'.value = <<[status |-> "not_found"]>>]_vars

\* a task is stored with a subscriber, and get_task_status was asked for an
\* id that clone_website did not return
C23_Witness ==
    /\ reply.call = "get_task_status"
    /\ Len(active_tasks) = 1
    /\ reply.task_id = TaskId(2)
    /\ reply.value = <<[status |-> "not_found"]>>
    /\ websocket_connections[TaskId(1)] # <<>>

\* --------------------------------------------------- claims on the gate
\* the six stages of _create_agent_configs, in their order
DefaultConfiguration ==
    /\ Len(agent_configs) = 6
    /\ \A i \in 1..6 : agent_configs[i].agent_type = DefaultTypes[i]

\* the latest validation run reported passed = true
GateLastPassed == gate_log # <<>> /\ gate_log[Len(gate_log)]

\* C24 (as claimed): in the default six-stage configuration run_workflow
\* returns completed, and the service builds a success response, only if the
\* latest execution of the gate reported passed = true.
C24_CompletedOnlyIfGatePassed ==
    (DefaultConfiguration /\ Returned) =>
        /\ final_state.status = "completed" => GateLastPassed
        /\ (pc = "responded" /\ response.status = "success") => GateLastPassed

\* ------------------------------------------------ claims on stage ordering
\* a step in which the handler of node is entered
EntersHandler == pc \in {"node", "overdue"} /\ calls' # calls

C26_RetryCountIsEntriesMinusOne ==
    /\ [](/\ DOMAIN state.agents = {id \in DOMAIN Agents : Count(calls, id) >= 1}
          /\ \A id \in DOMAIN state.agents :
                state.agents[id].retry_count = calls[id] - 1)
    /\ [][EntersHandler =>
            state'.agents[node].retry_count =
                IF node \in DOMAIN state.agents
                THEN state.agents[node].retry_count + 1 ELSE 0]_vars

\* the synthesis stage has been entered three times
C26_Witness ==
    /\ COMPONENT_SYNTHESIZER_5 \in DOMAIN state.agents
    /\ state.agents[COMPONENT_SYNTHESIZER_5].retry_count = 2
    /\ Count(calls, COMPONENT_SYNTHESIZER_5) = 3
    /\ state.agents[SCRAPER_1].retry_count = 0

\* -------------------------------------- claims on changes during delivery
\* how often task n's event was delivered to w
TimesDelivered(w, n, event) ==
    Len(SelectSeq(EventsOf(w, n), LAMBDA m : m.event = event))

\* C27 (as claimed): whatever is registered or unregistered while a
\* notification of task n is suspended in a send_json, an observer that is
\* registered for the task from its start to its end, once, has received
\* task_started and the terminal event exactly once when the task is settled.
C27_SteadyObserverGetsEachEventOnce ==
    \A n \in 1..Len(active_tasks) : \A w \in Observers :
        (TaskSettled(n) /\ ObserverOf(n, w)) =>
            /\ TimesDelivered(w, n, "task_started") = 1
            /\ TimesDelivered(w, n, TerminalEventOf(n)) = 1

\* ------------------------------------------------- claims on the graph
\* the configured stage list holds a stage of this type
Configured(ty) ==
    \E i \in 1..Len(agent_configs) : agent_configs[i].agent_type = ty

\* C28 (as claimed): when the configuration holds a validation stage and a
\* component_synthesizer stage, at whatever positions, the graph that was
\* built has the conditional edge leaving the gate (success to end, retry to
\* synthesis).
C28_GateAndSynthesisGiveConditionalEdge ==
    (Configured("validation") /\ Configured("component_synthesizer"))
        => HasConditionalEdges(Agents)

\* ------------------------------------------- claims on completed tasks
\* the stored result of completed task n is a success that get_task_result
\* returns, and it carries the output of the latest synthesis execution
CompletedResultIsLatestSynthesis(n) ==
    LET t == active_tasks[n] IN
    /\ t.result.status = "success"
    /\ get_task_result(TaskId(n)) = <<t.result>>
    /\ n = runner =>
        /\ t.result.html = Count(calls, COMPONENT_SYNTHESIZER_5)
        /\ t.result.output_path = <<"dir", n>>

\* the latest gate execution of the run of task n passed the synthesis
\* execution whose output the result carries
GatePassedResult(n) ==
    n = runner =>
        /\ GateLastPassed
        /\ final_state.results[VALIDATION_6].passed
        /\ final_state.results[VALIDATION_6].seen = active_tasks[n].result.html

\* a completed task's result is the latest synthesis output, returned by
\* get_task_result
C29_CompletedTaskHasLatestSynthesis ==
    \A n \in 1..Len(active_tasks) :
        active_tasks[n].status = "completed" =>
            CompletedResultIsLatestSynthesis(n)

\* C29 (as claimed): whenever a task is completed its stored result is a
\* success that get_task_result returns, with the html and css of the latest
\* synthesis execution of its run, which is the artifact the gate passed
\* last.
C29_CompletedTaskHasArtifactGatePassed ==
    \A n \in 1..Len(active_tasks) :
        active_tasks[n].status = "completed" =>
            /\ CompletedResultIsLatestSynthesis(n)
            /\ GatePassedResult(n)

\* ------------------------------------------------ claims on initialization
\* C30: initialize creates the agents and the orchestrator at most once,
\* also when two tasks were started before either had initialized the
\* service; what was created is never replaced, so every run uses the same
\* agents.
C30_CreatedAtMostOnce ==
    /\ [](/\ creations <= 1
          /\ (agent_instances # <<>>) <=> (creations = 1)
          /\ (orchestrator # None) <=> (creations = 1)
          /\ pc \in {"start", "node", "overdue", "route", "end"}
                => creations = 1)
    /\ [][/\ agent_instances # <<>> => agent_instances' = agent_instances
          /\ orchestrator # None => orchestrator' = orchestrator]_vars

\* task 1 was started first and waited in a send_json while task 2
\* initialized the service and ran; then task 1 ran on the same agents
C30_Witness ==
    /\ Len(active_tasks) = 2
    /\ active_tasks[1].status = "completed"
    /\ active_tasks[2].status = "completed"
    /\ runner = 1
    /\ creations = 1
====
